---- MODULE Spec2Model ----
(***************************************************************************)
(* PowerVSImageScope (cloud/scope/powervs_image.go): the scope around one  *)
(* IBMPowerVSImage, its status accessors, and the operations that import   *)
(* an image from a COS bucket, look up the last import job and delete the  *)
(* image and the job through the PowerVS client.                           *)
(*                                                                         *)
(* A Go pointer is a sequence of length 0 (nil) or 1 (a pointer to the     *)
(* element); an error is a pointer to its message.                         *)
(***************************************************************************)
EXTENDS Integers, Sequences, FiniteSets, TLC

\* ------------------------------------------------------------- bounds
\* Images the service instance makes after the one it starts with.
MaxImages == 1
\* Import jobs ever created on the service instance.
MaxJobs == 2
\* Images in a listing handed to ensureImageUnique.
MaxListing == 4

\* ---------------------------------------------------------- constants
BucketAccess == "public"

\* ObjectMeta.Name of the IBMPowerVSImage in scope, and the name of another
\* image of the same service instance.
Name == "boot-img"
OtherName == "other-img"

\* IBMPowerVSImage.Spec
ImageSpec ==
    [ServiceInstanceID |-> "svc-1", Bucket |-> "b1", Object |-> "o1",
     Region |-> "us-south", StorageType |-> "tier1"]

Nil == <<>>
Ptr(x) == <<x>>
Deref(p) == p[1]

\* The error a failing PowerVS client call returns, by the call.
ErrorOf(fn) == fn \o " failed"

ImageIDOf(n) == "image-" \o ToString(n)
JobIDOf(n) == "job-" \o ToString(n)
ImageIDs == {ImageIDOf(n) : n \in 1..MaxImages}
JobIDs == {JobIDOf(n) : n \in 1..MaxJobs}

ImageStates == {"", "active"}

\* The names ensureImageUnique is asked for: the last one is never listed.
ImageNames == {Name, OtherName, "absent-img"}

\* ------------------------------------------------------------- events
Event(type, reason, arg) == [type |-> type, reason |-> reason, arg |-> arg]
\* record.Eventf
Eventf(reason, arg) == Event("Normal", reason, arg)
\* record.Warnf
Warnf(reason, arg) == Event("Warning", reason, arg)

\* A client call: the method, the key it was given, the error it returned.
Call(fn, key, err) == [fn |-> fn, key |-> key, err |-> err]

\* What one scope operation did: the values it returned, whether it ended in
\* a nil-pointer panic instead of returning, the client calls it issued, the
\* events it recorded and the status it left.
Outcome(st, img, job, err, calls, events) ==
    [status |-> st, img |-> img, job |-> job, err |-> err, panic |-> FALSE,
     calls |-> calls, events |-> events]
Panic(st, calls, events) ==
    [status |-> st, img |-> Nil, job |-> Nil, err |-> Nil, panic |-> TRUE,
     calls |-> calls, events |-> events]

\* ---------------------------------------------------------------- state
VARIABLES
    status,      \* IBMPowerVSImage.Status: Ready, ImageID, ImageState, JobID
    images,      \* the service instance's images, in listing order
    jobs,        \* the service instance's import jobs, oldest first
    made,        \* how many images and jobs the service instance ever made
    deleted,     \* the IDs DeleteImage / DeleteImportJob deleted remotely
    last,        \* the operation that just ran on the scope, and its outcome
    store,       \* the IBMPowerVSImage's status as the backing store holds it
    scope,       \* what NewPowerVSImageScope returned for the current pass
    pass,        \* the current pass: the patches it made, the store when it began
    returned     \* what the getter or function applied last returned

vars == <<status, images, jobs, made, deleted, last, store, scope, pass, returned>>

\* What the operations on a built scope leave alone.
passVars == <<store, scope, pass, returned>>

\* ------------------------------------------------ the PowerVS client
\* powervs.PowerVS.GetAllImage: the listing, or an error.
GetAllImage(err) ==
    IF err # Nil THEN [images |-> Nil, err |-> err]
    ELSE [images |-> Ptr([Images |-> images]), err |-> Nil]

\* powervs.PowerVS.GetCosImages(id): the last import job of service instance id.
GetCosImages(id, err) ==
    IF err # Nil THEN [job |-> Nil, err |-> err]
    ELSE IF id # ImageSpec.ServiceInstanceID \/ jobs = <<>> THEN [job |-> Nil, err |-> Nil]
    ELSE [job |-> Ptr(jobs[Len(jobs)]), err |-> Nil]

\* powervs.PowerVS.CreateCosImage(body): a reference to the new import job.
CreateCosImage(body, err) ==
    IF err # Nil THEN [jobRef |-> Nil, err |-> err]
    ELSE [jobRef |-> Ptr([ID |-> JobIDOf(made.jobs + 1)]), err |-> Nil]

\* The import job the service instance starts for a CreateCosImage request.
NewJob(body) ==
    [ID |-> JobIDOf(made.jobs + 1), ImageName |-> body.ImageName, State |-> "queued"]

HasImage(id) == \E k \in DOMAIN images : images[k].ImageID = id
HasJob(id) == \E k \in DOMAIN jobs : jobs[k].ID = id

IsTerminal(state) == state \in {"completed", "failed"}

\* -------------------------------------------------- ensureImageUnique
RECURSIVE FirstNamed(_, _)
\* for _, img := range images.Images { if *img.Name == imageName { return img } }
FirstNamed(imgs, imageName) ==
    IF imgs = <<>> THEN Nil
    ELSE IF Head(imgs).Name = imageName THEN Ptr(Head(imgs))
    ELSE FirstNamed(Tail(imgs), imageName)

\* Mutant: the name test negated (*img.Name != imageName).
ensureImageUnique_OtherName(imageName, listed) ==
    IF listed.err # Nil THEN [img |-> Nil, err |-> listed.err]
    ELSE LET others == SelectSeq(Deref(listed.images).Images, LAMBDA r : r.Name # imageName)
         IN  [img |-> IF others = <<>> THEN Nil ELSE Ptr(Head(others)), err |-> Nil]

\* Mutant: the last image of the name wins.
ensureImageUnique_LastNamed(imageName, listed) ==
    IF listed.err # Nil THEN [img |-> Nil, err |-> listed.err]
    ELSE LET named == SelectSeq(Deref(listed.images).Images, LAMBDA r : r.Name = imageName)
         IN  [img |-> IF named = <<>> THEN Nil ELSE Ptr(named[Len(named)]), err |-> Nil]

ensureImageUnique(imageName, listed) ==
    IF listed.err # Nil THEN [img |-> Nil, err |-> listed.err]
    ELSE [img |-> FirstNamed(Deref(listed.images).Images, imageName), err |-> Nil]

\* ------------------------------------------------------- GetImportJob
\* Mutant: the job is looked up by the job ID the status holds.
GetImportJob_ByStatusJobID(err) ==
    IF err # Nil THEN [job |-> Nil, err |-> err]
    ELSE LET stored == SelectSeq(jobs, LAMBDA j : j.ID = status.JobID)
         IN  [job |-> IF stored = <<>> THEN Nil ELSE Ptr(Head(stored)), err |-> Nil]

\* return i.IBMPowerVSClient.GetCosImages(i.IBMPowerVSImage.Spec.ServiceInstanceID)
GetImportJob(err) == GetCosImages(ImageSpec.ServiceInstanceID, err)

GetImportJobCall(err) == Call("GetCosImages", ImageSpec.ServiceInstanceID, err)

\* ----------------------------------------------- CreateImageCOSBucket
\* err != nil after ensureImageUnique: the arguments of record.Warnf are
\* evaluated first, and *imageReply.Name dereferences imageReply.
RetrieveFailed(st, imageReply, err, calls) ==
    IF imageReply = Nil THEN Panic(st, calls, <<>>)
    ELSE Outcome(st, Nil, Nil, err, calls,
                 <<Warnf("FailedRetriveImage", Deref(imageReply).Name)>>)

\* Mutant: the image found is not returned.
ImageExists_NotReturned(st, imageReply, calls) ==
    Outcome(st, Nil, Nil, Nil, calls,
            <<Eventf("SuccessfulRetriveImage", Deref(imageReply).Name)>>)

\* imageReply != nil
ImageExists(st, imageReply, calls) ==
    Outcome(st, imageReply, Nil, Nil, calls,
            <<Eventf("SuccessfulRetriveImage", Deref(imageReply).Name)>>)

\* Mutant: only an in-progress job counts as not yet finished.
NotYetFinished_OnlyInProgress(lastJob) ==
    /\ lastJob # Nil
    /\ Deref(lastJob).State = "in-progress"

\* lastJob != nil && state != "completed" && state != "failed"
NotYetFinished(lastJob) ==
    /\ lastJob # Nil
    /\ Deref(lastJob).State # "completed"
    /\ Deref(lastJob).State # "failed"

\* "Previous import job not yet fininshed"
JobPending(st, calls) == Outcome(st, Nil, Nil, Nil, calls, <<>>)

\* Mutant: the bucket is requested as a private one.
ImportJobBody_PrivateBucket ==
    [ImageName |-> Name, BucketName |-> ImageSpec.Bucket, BucketAccess |-> "private",
     Region |-> ImageSpec.Region, ImageFilename |-> ImageSpec.Object,
     StorageType |-> ImageSpec.StorageType]

\* body := &models.CreateCosImageImportJob{...}
ImportJobBody ==
    [ImageName |-> Name, BucketName |-> ImageSpec.Bucket, BucketAccess |-> BucketAccess,
     Region |-> ImageSpec.Region, ImageFilename |-> ImageSpec.Object,
     StorageType |-> ImageSpec.StorageType]

\* Mutant: the failed request's (empty) job reference is returned with the error.
CreateFailed_WithJobRef(st, err, calls) ==
    Outcome(st, Nil, Ptr([ID |-> ""]), err, calls,
            <<Warnf("FailedCreateImageImportJob", Deref(err))>>)

\* err != nil after CreateCosImage
CreateFailed(st, err, calls) ==
    Outcome(st, Nil, Nil, err, calls, <<Warnf("FailedCreateImageImportJob", Deref(err))>>)

\* "New import job request created"
JobCreated(st, jobRef, calls) ==
    Outcome(st, Nil, jobRef, Nil, calls,
            <<Eventf("SuccessfulCreateImageImportJob", Deref(jobRef).ID)>>)

\* What CreateImageCOSBucket does when the client answers its calls with the
\* errors listErr, getErr and createErr (Nil: the call succeeds).
CreateImageCOSBucketRun(st, listErr, getErr, createErr) ==
    LET reply == ensureImageUnique(Name, GetAllImage(listErr))
        c1 == <<Call("GetAllImage", "", listErr)>>
    IN  IF reply.err # Nil THEN RetrieveFailed(st, reply.img, reply.err, c1)
        ELSE IF reply.img # Nil THEN ImageExists(st, reply.img, c1)
        ELSE
          LET lastJob == GetImportJob(getErr).job    \* lastJob, _ := i.GetImportJob()
              c2 == Append(c1, GetImportJobCall(getErr))
          IN  IF NotYetFinished(lastJob) THEN JobPending(st, c2)
              ELSE
                LET res == CreateCosImage(ImportJobBody, createErr)
                    c3 == Append(c2, Call("CreateCosImage", ImportJobBody, createErr))
                IN  IF res.err # Nil THEN CreateFailed(st, res.err, c3)
                    ELSE JobCreated(st, res.jobRef, c3)

\* The calls of a run that went to client method fn, and those that failed.
Issued(calls, fn) == {k \in DOMAIN calls : calls[k].fn = fn}
Failed(calls, fn) == {k \in Issued(calls, fn) : calls[k].err # Nil}
\* The client calls of a run that were answered with an error.
FailedCalls(calls) == {k \in DOMAIN calls : calls[k].err # Nil}
\* Whether the run had the service instance start an import job.
Created(calls) == Issued(calls, "CreateCosImage") # Failed(calls, "CreateCosImage")

\* -------------------------------------- DeleteImage / DeleteImportJob
\* Mutant: a successful delete also clears Status.ImageID.
DeleteImageRun_ClearsImageID(st, err) ==
    LET calls == <<Call("DeleteImage", st.ImageID, err)>>
    IN  IF err # Nil
        THEN Outcome(st, Nil, Nil, err, calls, <<Warnf("FailedDeleteImage", Deref(err))>>)
        ELSE Outcome([st EXCEPT !.ImageID = ""], Nil, Nil, Nil, calls,
                     <<Eventf("SuccessfulDeleteImage", st.ImageID)>>)

DeleteImageRun(st, err) ==
    LET calls == <<Call("DeleteImage", st.ImageID, err)>>
    IN  IF err # Nil
        THEN Outcome(st, Nil, Nil, err, calls, <<Warnf("FailedDeleteImage", Deref(err))>>)
        ELSE Outcome(st, Nil, Nil, Nil, calls, <<Eventf("SuccessfulDeleteImage", st.ImageID)>>)

\* Mutant: the job delete is keyed by Status.ImageID.
DeleteImportJobRun_KeyedByImageID(st, err) ==
    LET calls == <<Call("DeleteJob", st.ImageID, err)>>
    IN  IF err # Nil
        THEN Outcome(st, Nil, Nil, err, calls,
                     <<Warnf("FailedDeleteImageImoprtJob", Deref(err))>>)
        ELSE Outcome(st, Nil, Nil, Nil, calls,
                     <<Eventf("SuccessfulDeleteImageImoprtJob", st.JobID)>>)

\* Mutant: a successful delete also clears Status.JobID.
DeleteImportJobRun_ClearsJobID(st, err) ==
    LET calls == <<Call("DeleteJob", st.JobID, err)>>
    IN  IF err # Nil
        THEN Outcome(st, Nil, Nil, err, calls,
                     <<Warnf("FailedDeleteImageImoprtJob", Deref(err))>>)
        ELSE Outcome([st EXCEPT !.JobID = ""], Nil, Nil, Nil, calls,
                     <<Eventf("SuccessfulDeleteImageImoprtJob", st.JobID)>>)

DeleteImportJobRun(st, err) ==
    LET calls == <<Call("DeleteJob", st.JobID, err)>>
    IN  IF err # Nil
        THEN Outcome(st, Nil, Nil, err, calls,
                     <<Warnf("FailedDeleteImageImoprtJob", Deref(err))>>)
        ELSE Outcome(st, Nil, Nil, Nil, calls,
                     <<Eventf("SuccessfulDeleteImageImoprtJob", st.JobID)>>)

\* --------------------------------------------------- status accessors
SetReadyRun(st) == [st EXCEPT !.Ready = TRUE]
SetNotReadyRun(st) == [st EXCEPT !.Ready = FALSE]
\* Mutant: a nil id clears Status.ImageID.
SetImageIDRun_NilClears(st, id) == [st EXCEPT !.ImageID = IF id # Nil THEN Deref(id) ELSE ""]

\* if id != nil { Status.ImageID = *id }
SetImageIDRun(st, id) == IF id # Nil THEN [st EXCEPT !.ImageID = Deref(id)] ELSE st
SetImageStateRun(st, state) == [st EXCEPT !.ImageState = state]
SetJobIDRun(st, id) == [st EXCEPT !.JobID = id]

\* return i.IBMPowerVSImage.Status.<field>
IsReadyRun(st) == st.Ready
GetImageIDRun(st) == st.ImageID
GetImageStateRun(st) == st.ImageState
GetJobIDRun(st) == st.JobID

\* ----------------------------------------------------------------- Init
ZeroStatus == [Ready |-> FALSE, ImageID |-> "", ImageState |-> "", JobID |-> ""]

\* The record of the operation that just ran: its name and argument, its
\* outcome, and (CreateImageCOSBucket only) whether the operation right before
\* it was a CreateImageCOSBucket too, and whether that one created a job.
Ran(op, arg, out, prior) ==
    [op |-> op, arg |-> arg, img |-> out.img, job |-> out.job, err |-> out.err,
     panic |-> out.panic, calls |-> out.calls, events |-> out.events, prior |-> prior]

NoOutcome == Outcome(ZeroStatus, Nil, Nil, Nil, <<>>, <<>>)
Idle == Ran("none", Nil, NoOutcome, Nil)

\* ------------------------------------------------ NewPowerVSImageScope
\* The calls of NewPowerVSImageScope that return an error, in the order of
\* the code, each with what its error is wrapped in ("": returned as it is).
Steps ==
    <<[fn |-> "patch.NewHelper", wrap |-> "failed to init patch helper"],
      [fn |-> "authenticator.GetAuthenticator", wrap |-> "failed to get authenticator"],
      [fn |-> "servicesutils.GetAccount", wrap |-> "failed to get account"],
      [fn |-> "resourcecontroller.NewService", wrap |-> ""],
      [fn |-> "rc.GetResourceInstance", wrap |-> "failed to get resource instance"],
      [fn |-> "utils.GetRegion", wrap |-> "failed to get region"],
      [fn |-> "powervs.NewService", wrap |-> "failed to create NewIBMPowerVSClient"]>>

\* errors.Wrap(err, message); the error of powervs.NewService is replaced.
StepError(k) ==
    IF Steps[k].wrap = "" THEN Ptr(ErrorOf(Steps[k].fn))
    ELSE IF k = Len(Steps) THEN Ptr(Steps[k].wrap)
    ELSE Ptr(Steps[k].wrap \o ": " \o ErrorOf(Steps[k].fn))

\* scope = &PowerVSImageScope{}
EmptyScope ==
    [client |-> FALSE, IBMPowerVSImage |-> FALSE, Logger |-> "", patchHelper |-> FALSE,
     IBMPowerVSClient |-> FALSE]

\* What NewPowerVSImageScope returns: scope and err are named results, every
\* failure leaves through a bare return. params tells which of Client,
\* IBMPowerVSImage and Logger are given; failing is the step that returns an
\* error (0: none does).
NewPowerVSImageScopeRun(params, failing) ==
    IF ~params.Client
    THEN [scope |-> Ptr(EmptyScope),
          err |-> Ptr("failed to generate new scope from nil Client")]
    ELSE LET s1 == [EmptyScope EXCEPT !.client = TRUE]
         IN  IF ~params.IBMPowerVSImage
             THEN [scope |-> Ptr(s1),
                   err |-> Ptr("failed to generate new scope from nil IBMPowerVSImage")]
             ELSE LET s2 == [s1 EXCEPT !.IBMPowerVSImage = TRUE,
                                       !.Logger = IF params.Logger THEN "params.Logger"
                                                  ELSE "klogr"]
                      s3 == [s2 EXCEPT !.patchHelper = TRUE]
                  IN  IF failing = 1 THEN [scope |-> Ptr(s2), err |-> StepError(1)]
                      ELSE IF failing # 0 THEN [scope |-> Ptr(s3), err |-> StepError(failing)]
                      ELSE [scope |-> Ptr([s3 EXCEPT !.IBMPowerVSClient = TRUE]), err |-> Nil]

\* The parameters NewPowerVSImageScope is called with.
Params == [Client : BOOLEAN, IBMPowerVSImage : BOOLEAN, Logger : BOOLEAN]

\* The scope NewPowerVSImageScope returns when every step succeeds.
BuiltScope ==
    NewPowerVSImageScopeRun([Client |-> TRUE, IBMPowerVSImage |-> TRUE, Logger |-> FALSE], 0)

\* No scope: before the first pass and between two passes.
NoScope == [scope |-> Nil, err |-> Nil]

\* A pass that begins with the store holding status st and n import jobs made
\* so far: no patch made yet, not ended; rerun tells that the pass before it
\* was abandoned after it had an import job created.
NewPass(st, n, rerun) ==
    [patches |-> 0, opened |-> st, made |-> n, ended |-> "", rerun |-> rerun]

\* ------------------------------------------------- PatchObject / Close
\* return i.patchHelper.Patch(context.TODO(), i.IBMPowerVSImage): one patch;
\* unless it fails the store holds the status of the scope's IBMPowerVSImage.
PatchObjectRun(st, stored, err) ==
    [store |-> IF err = Nil THEN st ELSE stored, err |-> err, patches |-> 1]

\* Mutant: Close returns without patching.
CloseRun_NoPatch(st, stored, err) == [store |-> stored, err |-> Nil, patches |-> 0]

\* return i.PatchObject()
CloseRun(st, stored, err) == PatchObjectRun(st, stored, err)

\* A scope just built by NewPowerVSImageScope around a new IBMPowerVSImage, on
\* a service instance that holds another image and no import job.
Init ==
    /\ status = ZeroStatus
    /\ images = <<[Name |-> OtherName, ImageID |-> ImageIDOf(0)]>>
    /\ jobs = <<>>
    /\ made = [images |-> 0, jobs |-> 0]
    /\ deleted = {}
    /\ last = Idle
    /\ store = ZeroStatus
    /\ scope = BuiltScope
    /\ pass = NewPass(ZeroStatus, 0, FALSE)
    /\ returned = Nil

\* ------------------------------------------------- the scope's actions
\* The errors a call may be answered with: it can succeed only when possible.
Answers(fn, possible) == (IF possible THEN {Nil} ELSE {}) \cup {Ptr(ErrorOf(fn))}

CreateImageCOSBucket ==
    \E listErr \in Answers("GetAllImage", TRUE), getErr \in Answers("GetCosImages", TRUE),
       createErr \in Answers("CreateCosImage", made.jobs < MaxJobs) :
        LET out == CreateImageCOSBucketRun(status, listErr, getErr, createErr)
            created == Created(out.calls)
        IN  /\ status' = out.status
            /\ jobs' = IF created THEN Append(jobs, NewJob(ImportJobBody)) ELSE jobs
            /\ made' = IF created THEN [made EXCEPT !.jobs = @ + 1] ELSE made
            /\ last' = Ran("CreateImageCOSBucket", Nil, out,
                         IF last.op = "CreateImageCOSBucket"
                         THEN Ptr([created |-> Created(last.calls)]) ELSE Nil)
            /\ UNCHANGED <<images, deleted>>
            /\ UNCHANGED passVars

DeleteImage ==
    \E err \in Answers("DeleteImage", HasImage(status.ImageID)) :
        LET out == DeleteImageRun(status, err)
            key == out.calls[1].key
        IN  /\ status' = out.status
            /\ images' = IF err = Nil THEN SelectSeq(images, LAMBDA r : r.ImageID # key)
                         ELSE images
            /\ deleted' = IF err = Nil THEN deleted \cup {key} ELSE deleted
            /\ last' = Ran("DeleteImage", Nil, out, Nil)
            /\ UNCHANGED <<jobs, made>>
            /\ UNCHANGED passVars

DeleteImportJob ==
    \E err \in Answers("DeleteJob", HasJob(status.JobID)) :
        LET out == DeleteImportJobRun(status, err)
            key == out.calls[1].key
        IN  /\ status' = out.status
            /\ jobs' = IF err = Nil THEN SelectSeq(jobs, LAMBDA r : r.ID # key) ELSE jobs
            /\ deleted' = IF err = Nil THEN deleted \cup {key} ELSE deleted
            /\ last' = Ran("DeleteImportJob", Nil, out, Nil)
            /\ UNCHANGED <<images, made>>
            /\ UNCHANGED passVars

\* A status accessor: no client call, no event.
Accessor(op, arg, st) ==
    /\ status' = st
    /\ last' = Ran(op, arg, NoOutcome, Nil)
    /\ UNCHANGED <<images, jobs, made, deleted>>
    /\ UNCHANGED passVars

SetReady == Accessor("SetReady", Nil, SetReadyRun(status))
SetNotReady == Accessor("SetNotReady", Nil, SetNotReadyRun(status))
SetImageID ==
    \E id \in {Nil, Ptr("")} \cup {Ptr(i) : i \in ImageIDs} :
        Accessor("SetImageID", id, SetImageIDRun(status, id))
SetImageState ==
    \E state \in ImageStates :
        Accessor("SetImageState", Ptr(state), SetImageStateRun(status, state))
SetJobID ==
    \E id \in {""} \cup JobIDs : Accessor("SetJobID", Ptr(id), SetJobIDRun(status, id))

\* A status getter: the status is read, and the value handed back.
Getter(op, value) ==
    /\ returned' = Ptr(value)
    /\ last' = Ran(op, Nil, NoOutcome, Nil)
    /\ UNCHANGED <<status, images, jobs, made, deleted, store, scope, pass>>

IsReady == Getter("IsReady", IsReadyRun(status))
GetImageID == Getter("GetImageID", GetImageIDRun(status))
GetImageState == Getter("GetImageState", GetImageStateRun(status))
GetJobID == Getter("GetJobID", GetJobIDRun(status))

\* GetImportJob called by the controller to poll the import.
PollImportJob ==
    \E err \in Answers("GetCosImages", TRUE) :
        LET res == GetImportJob(err)
        IN  /\ last' = Ran("GetImportJob", Nil,
                           Outcome(status, Nil, res.job, res.err, <<GetImportJobCall(err)>>, <<>>),
                           Nil)
            /\ UNCHANGED <<status, images, jobs, made, deleted>>
            /\ UNCHANGED passVars

\* ensureImageUnique applied to a name and the answer of the listing call.
EnsureImageUnique ==
    \E imageName \in ImageNames, listErr \in Answers("GetAllImage", TRUE) :
        LET res == ensureImageUnique(imageName, GetAllImage(listErr))
        IN  /\ last' = Ran("ensureImageUnique", Ptr(imageName),
                           Outcome(status, res.img, Nil, res.err,
                                   <<Call("GetAllImage", "", listErr)>>, <<>>),
                           Nil)
            /\ UNCHANGED <<status, images, jobs, made, deleted>>
            /\ UNCHANGED passVars

\* ------------------------------------------------- reconciliation passes
\* The controller goes on with a scope only when NewPowerVSImageScope
\* returned a nil error.
Open == scope.scope # Nil /\ scope.err = Nil

\* A scope is built around the IBMPowerVSImage as the store holds it. When
\* that fails the pass is over.
NewScope(given) ==
    /\ ~Open
    /\ \E params \in given, failing \in 0..Len(Steps) :
          LET res == NewPowerVSImageScopeRun(params, failing)
          IN  /\ scope' = res
              /\ status' = store
              /\ pass' = IF res.err = Nil
                         THEN NewPass(store, made.jobs,
                                      pass.ended = "abandoned" /\ made.jobs > pass.made)
                         ELSE [NewPass(store, made.jobs, FALSE) EXCEPT !.ended = "failed"]
              /\ last' = Ran("NewPowerVSImageScope", Ptr([params |-> params, failing |-> failing]),
                             Outcome(store, Nil, Nil, res.err, <<>>, <<>>), Nil)
              /\ UNCHANGED <<images, jobs, made, deleted, store, returned>>

\* NewPowerVSImageScope called with any parameters.
NewPowerVSImageScope == NewScope(Params)

\* A pass begins: the controller hands its client, its logger and the
\* IBMPowerVSImage it read from the store to NewPowerVSImageScope.
BeginPass == NewScope({[Client |-> TRUE, IBMPowerVSImage |-> TRUE, Logger |-> TRUE]})

\* The pass ends with Close, called once (deferred by the controller); the
\* scope and its copy of the IBMPowerVSImage are dropped.
Close ==
    /\ Open
    /\ \E err \in Answers("Patch", TRUE) :
          LET out == CloseRun(status, store, err)
          IN  /\ store' = out.store
              /\ status' = out.store
              /\ pass' = [pass EXCEPT !.patches = @ + out.patches, !.ended = "closed"]
              /\ scope' = NoScope
              /\ last' = Ran("Close", Nil, Outcome(status, Nil, Nil, out.err, <<>>, <<>>), Nil)
              /\ UNCHANGED <<images, jobs, made, deleted, returned>>

\* The pass is abandoned before Close: the scope and its copy of the
\* IBMPowerVSImage are lost.
Abandon ==
    /\ Open
    /\ status' = store
    /\ pass' = [pass EXCEPT !.ended = "abandoned"]
    /\ scope' = NoScope
    /\ last' = Idle
    /\ UNCHANGED <<images, jobs, made, deleted, store, returned>>

\* ------------------------------------------------ the service instance
\* What happens remotely between two operations of the scope.
Env(newImages, newJobs, newMade) ==
    /\ images' = newImages
    /\ jobs' = newJobs
    /\ made' = newMade
    /\ last' = Idle
    /\ UNCHANGED <<status, deleted>>
    /\ UNCHANGED passVars

JobStarts ==
    \E k \in DOMAIN jobs :
        /\ jobs[k].State = "queued"
        /\ Env(images, [jobs EXCEPT ![k].State = "in-progress"], made)

JobFails ==
    \E k \in DOMAIN jobs :
        /\ jobs[k].State = "in-progress"
        /\ Env(images, [jobs EXCEPT ![k].State = "failed"], made)

\* A completed import leaves an image of the requested name.
JobCompletes ==
    \E k \in DOMAIN jobs :
        /\ jobs[k].State = "in-progress"
        /\ made.images < MaxImages
        /\ Env(Append(images, [Name |-> jobs[k].ImageName,
                               ImageID |-> ImageIDOf(made.images + 1)]),
               [jobs EXCEPT ![k].State = "completed"],
               [made EXCEPT !.images = @ + 1])

\* The scope of another IBMPowerVSImage of the service instance starts an import.
OtherImageImports ==
    /\ made.jobs < MaxJobs
    /\ Env(images,
           Append(jobs, [ID |-> JobIDOf(made.jobs + 1), ImageName |-> OtherName,
                         State |-> "queued"]),
           [made EXCEPT !.jobs = @ + 1])

\* An image of the scope's name is put on the service instance by other means
\* than an import job.
ImageAppears ==
    /\ made.images < MaxImages
    /\ Env(Append(images, [Name |-> Name, ImageID |-> ImageIDOf(made.images + 1)]),
           jobs, [made EXCEPT !.images = @ + 1])

Next ==
    \/ CreateImageCOSBucket
    \/ DeleteImage
    \/ DeleteImportJob
    \/ SetReady
    \/ SetNotReady
    \/ SetImageID
    \/ SetImageState
    \/ SetJobID
    \/ JobStarts
    \/ JobFails
    \/ JobCompletes
    \/ OtherImageImports
    \/ ImageAppears

Spec == Init /\ [][Next]_vars

\* ------------------------------- the accessors and the job lookup alone
NextAccessors ==
    \/ SetReady
    \/ SetNotReady
    \/ SetImageID
    \/ SetImageState
    \/ SetJobID
    \/ IsReady
    \/ GetImageID
    \/ GetImageState
    \/ GetJobID
    \/ PollImportJob
    \/ OtherImageImports
    \/ JobStarts
    \/ JobFails

SpecAccessors == Init /\ [][NextAccessors]_vars

\* ------------------------------------------ passes over one IBMPowerVSImage
\* No pass has begun: the store holds a new IBMPowerVSImage.
InitPass ==
    /\ status = ZeroStatus
    /\ images = <<[Name |-> OtherName, ImageID |-> ImageIDOf(0)]>>
    /\ jobs = <<>>
    /\ made = [images |-> 0, jobs |-> 0]
    /\ deleted = {}
    /\ last = Idle
    /\ store = ZeroStatus
    /\ scope = NoScope
    /\ pass = [NewPass(ZeroStatus, 0, FALSE) EXCEPT !.ended = "closed"]
    /\ returned = Nil

NextPass ==
    \/ BeginPass
    \/ Close
    \/ Abandon
    \/ Open /\ CreateImageCOSBucket
    \/ Open /\ DeleteImage
    \/ Open /\ DeleteImportJob
    \/ Open /\ SetReady
    \/ Open /\ SetImageID
    \/ Open /\ SetJobID
    \/ JobStarts
    \/ JobFails
    \/ JobCompletes

SpecPass == InitPass /\ [][NextPass]_vars

\* -------------------------------------- building a scope, on any parameters
NextNew ==
    \/ NewPowerVSImageScope
    \/ Open /\ SetReady
    \/ Open /\ SetJobID
    \/ Close

SpecNew == InitPass /\ [][NextNew]_vars

\* ------------------------------------- ensureImageUnique on any listing
\* The listings of up to MaxListing images named Name or OtherName, each
\* image with an ID of its own.
Listings ==
    UNION {{[k \in 1..n |-> [Name |-> names[k], ImageID |-> ImageIDOf(k)]] :
                names \in [1..n -> {Name, OtherName}]} : n \in 0..MaxListing}

InitUnique ==
    /\ status = ZeroStatus
    /\ images \in Listings
    /\ jobs = <<>>
    /\ made = [images |-> 0, jobs |-> 0]
    /\ deleted = {}
    /\ last = Idle
    /\ store = ZeroStatus
    /\ scope = BuiltScope
    /\ pass = NewPass(ZeroStatus, 0, FALSE)
    /\ returned = Nil

SpecUnique == InitUnique /\ [][EnsureImageUnique]_vars

\* ------------------------------------------- passes repeated for ever
\* A CreateImageCOSBucket call all of whose client calls are answered.
CreateAnswered == CreateImageCOSBucket /\ FailedCalls(last'.calls) = {}

NextLive ==
    \/ CreateImageCOSBucket
    \/ JobStarts
    \/ JobFails
    \/ JobCompletes

\* The controller is requeued until the image is there, and the client's
\* calls do not fail for ever; a queued import job starts, and one in
\* progress ends.
FairLive ==
    /\ WF_vars(CreateAnswered)
    /\ WF_vars(JobStarts)
    /\ WF_vars(JobFails \/ JobCompletes)

SpecLive == Init /\ [][NextLive]_vars /\ FairLive

\* =============================================================== claims
\* The images of the listing that carry the scope's name.
OwnImages == {k \in DOMAIN images : images[k].Name = Name}
\* The import jobs of the scope's image that are neither completed nor failed.
OwnRunningJobs == {k \in DOMAIN jobs : jobs[k].ImageName = Name /\ ~IsTerminal(jobs[k].State)}
Warnings(events) == {k \in DOMAIN events : events[k].type = "Warning"}
\* The operation returned nothing at all: (nil, nil, nil), and did return.
ReturnedNoOp(r) == r.img = Nil /\ r.job = Nil /\ r.err = Nil /\ ~r.panic
RanCreate(r) == r.op = "CreateImageCOSBucket"

\* C1: of two CreateImageCOSBucket calls in a row, with nothing happening
\* remotely in between, at most one has an import job created, and when the
\* first created one the second returns (nil, nil, nil).
C1_TwoCallsOneJob ==
    (RanCreate(last) /\ last.prior # Nil) =>
        /\ ~(Deref(last.prior).created /\ Created(last.calls))
        /\ Deref(last.prior).created => ReturnedNoOp(last)

\* C2: at every moment at most one import job of the scope's image is
\* neither completed nor failed.
C2_OneRunningJob == Cardinality(OwnRunningJobs) <= 1

\* C3: when the service instance lists an image of the scope's name,
\* CreateImageCOSBucket issues no CreateCosImage request, and, the listing
\* answered, returns such an image with a nil job and a nil error, whatever
\* the import jobs are.
C3_ExistingImageReturned ==
    [][(RanCreate(last') /\ OwnImages # {}) =>
          /\ Issued(last'.calls, "CreateCosImage") = {}
          /\ Failed(last'.calls, "GetAllImage") = {} =>
                /\ last'.img # Nil
                /\ Deref(last'.img) \in {images[k] : k \in OwnImages}
                /\ last'.job = Nil
                /\ last'.err = Nil
                /\ ~last'.panic]_vars

\* C3 happens: the image is returned while the last import job is in progress.
C3_Witness ==
    /\ RanCreate(last)
    /\ last.img # Nil
    /\ Deref(last.img).Name = Name
    /\ jobs # <<>>
    /\ jobs[Len(jobs)].State = "in-progress"

\* C4: when no listed image has the scope's name and the last import job is
\* queued or in progress (listing and lookup answered), CreateImageCOSBucket
\* returns (nil, nil, nil) and issues no CreateCosImage request.
C4_RunningJobNoOp ==
    [][(/\ RanCreate(last')
        /\ OwnImages = {}
        /\ jobs # <<>>
        /\ ~IsTerminal(jobs[Len(jobs)].State)
        /\ Failed(last'.calls, "GetAllImage") = {}
        /\ Failed(last'.calls, "GetCosImages") = {})
       => /\ ReturnedNoOp(last')
          /\ Issued(last'.calls, "GetCosImages") # {}
          /\ Issued(last'.calls, "CreateCosImage") = {}]_vars

\* C4 happens: a call found the last job queued and returned nothing.
C4_Witness ==
    /\ RanCreate(last)
    /\ ReturnedNoOp(last)
    /\ Len(last.calls) = 2
    /\ Failed(last.calls, "GetCosImages") = {}
    /\ OwnImages = {}
    /\ jobs # <<>>
    /\ jobs[Len(jobs)].State = "queued"

\* C5: when the listing fails, CreateImageCOSBucket does not crash: it returns
\* the listing's error with a nil image and a nil job, records one warning,
\* issues no further call and leaves the status as it was.
C5_ListFailureReturned ==
    [][(RanCreate(last') /\ Failed(last'.calls, "GetAllImage") # {}) =>
          /\ ~last'.panic
          /\ last'.err = last'.calls[1].err
          /\ last'.img = Nil
          /\ last'.job = Nil
          /\ Len(last'.calls) = 1
          /\ Cardinality(Warnings(last'.events)) = 1
          /\ status' = status]_vars

\* C6: CreateImageCOSBucket never returns an image and a job together, and
\* with an error it returns neither.
C6_ImageOrJobOrNeither ==
    RanCreate(last) =>
        /\ ~(last.img # Nil /\ last.job # Nil)
        /\ last.err # Nil => (last.img = Nil /\ last.job = Nil)

\* C6 happens: a call returned an error.
C6_Witness == RanCreate(last) /\ last.err # Nil

\* C7 as claimed: in every state Status.Ready holds exactly when Status.ImageID
\* is not empty.
C7_ReadyIffImageID == status.Ready <=> (status.ImageID # "")

\* C7 as amended: the equivalence of Status.Ready and a non-empty
\* Status.ImageID holds of a new scope and survives every operation but
\* SetReady, SetNotReady and SetImageID, each of which writes its own field
\* whatever the other is.
C7_KeptByAllButItsSetters ==
    [][(/\ status.Ready <=> (status.ImageID # "")
        /\ last'.op \notin {"SetReady", "SetNotReady", "SetImageID"})
       => (status'.Ready <=> (status'.ImageID # ""))]_vars

\* C7 happens: the scope is ready with an image ID after DeleteImage deleted
\* that image.
C7_Witness ==
    /\ last.op = "DeleteImage"
    /\ last.err = Nil
    /\ status.Ready
    /\ status.ImageID \in deleted

\* C8: a client call that fails during CreateImageCOSBucket has its error
\* returned as it is, the status left as it was and one warning recorded, and
\* after a failed GetCosImages no CreateCosImage request is issued.
C8_FailuresReturned ==
    [][RanCreate(last') =>
          \A k \in DOMAIN last'.calls :
              last'.calls[k].err # Nil =>
                  /\ ~last'.panic
                  /\ last'.err = last'.calls[k].err
                  /\ Cardinality(Warnings(last'.events)) = 1
                  /\ status' = status
                  /\ last'.calls[k].fn = "GetCosImages" =>
                         Issued(last'.calls, "CreateCosImage") = {}]_vars

\* C9: DeleteImage issues one DeleteImage call keyed by Status.ImageID and
\* DeleteImportJob one DeleteJob call keyed by Status.JobID; when the call
\* fails its error is returned, one warning is recorded and the status is
\* left as it was.
C9_DeleteKeyedAndFailureKeepsStatus ==
    [][/\ last'.op = "DeleteImage" =>
              /\ Len(last'.calls) = 1
              /\ last'.calls[1].fn = "DeleteImage"
              /\ last'.calls[1].key = status.ImageID
       /\ last'.op = "DeleteImportJob" =>
              /\ Len(last'.calls) = 1
              /\ last'.calls[1].fn = "DeleteJob"
              /\ last'.calls[1].key = status.JobID
       /\ (last'.op \in {"DeleteImage", "DeleteImportJob"} /\ last'.calls[1].err # Nil) =>
              /\ last'.err = last'.calls[1].err
              /\ ~last'.panic
              /\ Len(last'.events) = 1
              /\ Cardinality(Warnings(last'.events)) = 1
              /\ status' = status]_vars

\* C9 happens: the delete of an import job the service instance holds failed,
\* and the job ID is still in the status.
C9_Witness ==
    /\ last.op = "DeleteImportJob"
    /\ last.err # Nil
    /\ status.JobID # ""
    /\ HasJob(status.JobID)

\* C10 as claimed: Status.JobID goes from set to empty only when
\* DeleteImportJob has deleted that job, and Status.ImageID only when
\* DeleteImage has deleted that image.
C10_ClearedOnlyAfterDelete ==
    [][/\ (status.JobID # "" /\ status'.JobID = "") => status.JobID \in deleted
       /\ (status.ImageID # "" /\ status'.ImageID = "") => status.ImageID \in deleted]_vars

\* C10 as amended: Status.JobID changes only in SetJobID and Status.ImageID
\* only in SetImageID with a non-nil id, which clear them whether or not a
\* delete came before; DeleteImportJob, DeleteImage (failed or not) and
\* CreateImageCOSBucket change neither.
C10_ChangedOnlyBySetters ==
    [][/\ status'.JobID # status.JobID => last'.op = "SetJobID"
       /\ status'.ImageID # status.ImageID => (last'.op = "SetImageID" /\ last'.arg # Nil)]_vars

\* C10 happens: DeleteImportJob deleted the job, and its ID is still in the
\* status for the caller to clear.
C10_Witness ==
    /\ last.op = "DeleteImportJob"
    /\ last.err = Nil
    /\ status.JobID # ""
    /\ status.JobID \in deleted

\* The last import job of the service instance is none, completed or failed.
NoJobInFlight == IF jobs = <<>> THEN TRUE ELSE IsTerminal(jobs[Len(jobs)].State)
\* C12: when the listing is answered and holds no image of the scope's name,
\* and the service instance has no import job or its last one is failed or
\* completed, CreateImageCOSBucket issues exactly one CreateCosImage request,
\* for the image's name, the spec's bucket, object, region and storage type
\* and bucket access "public"; when the request succeeds the call returns a
\* nil image, the reference of the new job and a nil error, and leaves the
\* status (JobID and Ready with it) as it was.
C12_OneRequestFromSpec ==
    [][(/\ RanCreate(last')
        /\ Failed(last'.calls, "GetAllImage") = {}
        /\ OwnImages = {}
        /\ NoJobInFlight) =>
          /\ Cardinality(Issued(last'.calls, "CreateCosImage")) = 1
          /\ \A k \in Issued(last'.calls, "CreateCosImage") :
                last'.calls[k].key =
                    [ImageName |-> "boot-img", BucketName |-> "b1", BucketAccess |-> "public",
                     Region |-> "us-south", ImageFilename |-> "o1", StorageType |-> "tier1"]
          /\ Created(last'.calls) =>
                /\ last'.img = Nil
                /\ last'.job = Ptr([ID |-> JobIDOf(made.jobs + 1)])
                /\ last'.err = Nil
                /\ ~last'.panic
                /\ \E k \in DOMAIN jobs' : jobs'[k].ID = Deref(last'.job).ID
                /\ status' = status]_vars

\* C12 happens: after a failed import job a call had a new job created; the
\* status holds no job ID and is not ready.
C12_Witness ==
    /\ RanCreate(last)
    /\ last.job # Nil
    /\ \E k \in DOMAIN jobs : jobs[k].ImageName = Name /\ jobs[k].State = "failed"
    /\ status.JobID = ""
    /\ ~status.Ready

\* C14: CreateImageCOSBucket, DeleteImage and DeleteImportJob each record
\* exactly one warning, carrying the client's error message, when a client
\* call of theirs failed; no event when CreateImageCOSBucket found the last
\* job unfinished; and exactly one normal event otherwise.
C14_OneEventPerOutcome ==
    last.op \in {"CreateImageCOSBucket", "DeleteImage", "DeleteImportJob"} =>
        /\ FailedCalls(last.calls) # {} =>
              /\ Len(last.events) = 1
              /\ last.events[1].type = "Warning"
              /\ \E k \in FailedCalls(last.calls) :
                    last.events[1].arg = Deref(last.calls[k].err)
        /\ (FailedCalls(last.calls) = {} /\ RanCreate(last) /\ ReturnedNoOp(last)) =>
              last.events = <<>>
        /\ (FailedCalls(last.calls) = {} /\ ~(RanCreate(last) /\ ReturnedNoOp(last))) =>
              /\ Len(last.events) = 1
              /\ last.events[1].type = "Normal"

\* A CreateImageCOSBucket call whose listing and job lookup were answered,
\* the listing without an image of the scope's name.
LookedUpJob(r) ==
    /\ RanCreate(r)
    /\ Issued(r.calls, "GetCosImages") # {}
    /\ Failed(r.calls, "GetAllImage") \cup Failed(r.calls, "GetCosImages") = {}

\* C15 as claimed: the guard looks at the job whose ID Status.JobID holds:
\* with an empty Status.JobID, or with no unfinished import job of the
\* scope's image, CreateImageCOSBucket goes on to request an import job.
C15_GuardByStoredJobID ==
    [][(LookedUpJob(last') /\ (status.JobID = "" \/ OwnRunningJobs = {})) =>
          Issued(last'.calls, "CreateCosImage") # {}]_vars

\* C15 as amended: the guard looks up the last import job of the service
\* instance, by Spec.ServiceInstanceID and whatever Status.JobID holds: the
\* call requests no import job exactly when that job is queued or in
\* progress, be it the job of another image.
C15_GuardByServiceInstance ==
    [][LookedUpJob(last') =>
          /\ \A k \in Issued(last'.calls, "GetCosImages") :
                last'.calls[k].key = ImageSpec.ServiceInstanceID
          /\ Issued(last'.calls, "CreateCosImage") = {} <=> ~NoJobInFlight
          /\ ~NoJobInFlight => ReturnedNoOp(last')]_vars

\* C15 happens: a call requested no job because the import of another image
\* is in progress, the status holding a job ID that is not that job's.
C15_Witness ==
    /\ LookedUpJob(last)
    /\ ReturnedNoOp(last)
    /\ OwnRunningJobs = {}
    /\ jobs # <<>>
    /\ jobs[Len(jobs)].ImageName = OtherName
    /\ jobs[Len(jobs)].State = "in-progress"
    /\ status.JobID # jobs[Len(jobs)].ID

\* C17: ensureImageUnique, the listing answered, returns the first image in
\* listing order that carries the requested name, whether or not later images
\* carry it too, and (nil, nil) when none does; several images of the name
\* are no error.
C17_FirstOfTheName ==
    (last.op = "ensureImageUnique" /\ FailedCalls(last.calls) = {}) =>
        LET named == {k \in DOMAIN images : images[k].Name = Deref(last.arg)}
        IN  /\ last.err = Nil
            /\ named = {} => last.img = Nil
            /\ named # {} =>
                  \E k \in named :
                      /\ \A j \in named : k <= j
                      /\ last.img = Ptr(images[k])

\* C17 happens: two images carry the requested name, neither is the first of
\* the listing, and the earlier one is returned.
C17_Witness ==
    /\ last.op = "ensureImageUnique"
    /\ Len(images) >= 3
    /\ images[1].Name # Deref(last.arg)
    /\ images[2].Name = Deref(last.arg)
    /\ images[3].Name = Deref(last.arg)
    /\ last.img = Ptr(images[2])
    /\ last.err = Nil

\* C18: GetImportJob and the getters leave the status as it is; SetReady and
\* SetNotReady change only Ready, SetImageID only ImageID, SetImageState only
\* ImageState and SetJobID only JobID, each to the value given; SetImageID
\* with a nil id changes nothing; setters and getters issue no client call,
\* record no event and leave the service instance and the store alone.
C18_OwnFieldOnly ==
    [][/\ last'.op \in {"GetImportJob", "IsReady", "GetImageID", "GetImageState", "GetJobID"} =>
            status' = status
       /\ last'.op = "SetReady" => status' = [status EXCEPT !.Ready = TRUE]
       /\ last'.op = "SetNotReady" => status' = [status EXCEPT !.Ready = FALSE]
       /\ (last'.op = "SetImageID" /\ last'.arg # Nil) =>
            status' = [status EXCEPT !.ImageID = Deref(last'.arg)]
       /\ (last'.op = "SetImageID" /\ last'.arg = Nil) => status' = status
       /\ last'.op = "SetImageState" => status' = [status EXCEPT !.ImageState = Deref(last'.arg)]
       /\ last'.op = "SetJobID" => status' = [status EXCEPT !.JobID = Deref(last'.arg)]
       /\ last'.op \in {"SetReady", "SetNotReady", "SetImageID", "SetImageState", "SetJobID",
                        "IsReady", "GetImageID", "GetImageState", "GetJobID"} =>
            /\ last'.calls = <<>>
            /\ last'.events = <<>>
            /\ UNCHANGED <<images, jobs, made, deleted, store>>
       /\ last'.op = "IsReady" => returned' = Ptr(status.Ready)
       /\ last'.op = "GetImageID" => returned' = Ptr(status.ImageID)
       /\ last'.op = "GetImageState" => returned' = Ptr(status.ImageState)
       /\ last'.op = "GetJobID" => returned' = Ptr(status.JobID)
       /\ last'.op = "GetImportJob" => UNCHANGED <<images, jobs, made, deleted, store>>]_vars

\* C18 happens: SetImageID with a nil id ran on a status whose other fields
\* are all set, and the image ID is still there.
C18_Witness ==
    /\ last.op = "SetImageID"
    /\ last.arg = Nil
    /\ status.ImageID # ""
    /\ status.Ready
    /\ status.ImageState # ""
    /\ status.JobID # ""

\* C11: in a pass the store is written by Close alone: no other step of the
\* scope or of the service instance changes it or patches, so while the scope
\* is open no patch was made and the store holds what it held when the scope
\* was built; Close makes exactly one patch, which, unless it fails, leaves
\* the status of the scope in the store.
C11_PatchedOnceByClose ==
    [][/\ (store' # store \/ (pass'.patches # pass.patches /\ pass'.patches # 0)) =>
            last'.op = "Close"
       /\ Open' => (pass'.patches = 0 /\ store' = pass'.opened)
       /\ last'.op = "Close" =>
            /\ pass'.patches = 1
            /\ last'.err = Nil => store' = status
            /\ last'.err # Nil => store' = store]_vars

\* C11 happens: a pass that had an import job created and wrote the job ID
\* and Ready into the status was closed, and the store holds that status.
C11_Witness ==
    /\ last.op = "Close"
    /\ last.err = Nil
    /\ pass.patches = 1
    /\ store # pass.opened
    /\ store.JobID # ""
    /\ store.Ready
    /\ HasJob(store.JobID)

\* C13: NewPowerVSImageScope returns an error when the Client or the
\* IBMPowerVSImage is nil or a step of building the PowerVS client fails, and
\* with an error it returns no scope.
C13_ErrorAndNoScope ==
    last.op = "NewPowerVSImageScope" =>
        /\ (\/ ~Deref(last.arg).params.Client
            \/ ~Deref(last.arg).params.IBMPowerVSImage
            \/ Deref(last.arg).failing # 0) => scope.err # Nil
        /\ scope.err # Nil => scope.scope = Nil

\* C16: a pass abandoned before Close leaves the store as it was when the
\* pass began; and when it was abandoned after it had an import job created,
\* CreateImageCOSBucket in the pass run next has no second import job created
\* while an import job of the scope's image is neither completed nor failed.
C16_AbandonedPassRerun ==
    [][/\ (pass.ended = "" /\ pass'.ended = "abandoned") => store' = pass.opened
       /\ (RanCreate(last') /\ pass.rerun /\ made.jobs = pass.made /\ OwnRunningJobs # {}) =>
            ~Created(last'.calls)]_vars

\* CreateImageCOSBucket just returned an image of the scope's name.
ReturnedImage == RanCreate(last) /\ last.img # Nil /\ Deref(last.img).Name = Name
\* An import job of the scope's image is completed.
Completed == \E k \in DOMAIN jobs : jobs[k].ImageName = Name /\ jobs[k].State = "completed"

\* C19: with CreateImageCOSBucket called again and again and import jobs
\* going on to completed or failed, when an import job of the image completes
\* at some time and from some time on no client call fails, then at some time
\* a call returns the image, and from then on every call returns it and has
\* no import job created.
C19_ImageReturnedForGood ==
    (<>Completed /\ <>[](RanCreate(last) => FailedCalls(last.calls) = {})) =>
        <>(ReturnedImage /\ [](RanCreate(last) => (ReturnedImage /\ ~Created(last.calls))))

\* C19 happens: after a call that had a job created, and the job completed, a
\* call returned the image, the call before it having created nothing.
C19_Witness ==
    /\ ReturnedImage
    /\ Completed
    /\ last.prior # Nil
    /\ Deref(last.img).ImageID = ImageIDOf(1)
====
